---- MODULE Spec2Model ----
(***************************************************************************)
(* Model of the execution core of octave-mcp (internal/domain/octave.go):  *)
(* the Runner with its semaphore, ExecuteScript, GeneratePlot, the script  *)
(* validator and sanitizer, the output filter, and the run_octave tool     *)
(* handler of internal/server/server.go.                                   *)
(*                                                                         *)
(* Text is modelled as a sequence of one-character strings; the NUL byte   *)
(* is the element NUL.                                                     *)
(***************************************************************************)
EXTENDS Integers, Sequences, FiniteSets, TLC

\* ------------------------------------------------------------------------
\* Bounds of the model
\* ------------------------------------------------------------------------

\* number of concurrent callers (goroutines of the surrounding server)
NumProcs == 2

\* largest OCTAVE_CONCURRENCY_LIMIT value tried besides "unset"
MaxLimit == 2

\* largest value of OCTAVE_CONCURRENCY_LIMIT and OCTAVE_SCRIPT_LENGTH_LIMIT given to NewRunner
MaxConfigValue == 3

\* values of OCTAVE_SCRIPT_LENGTH_LIMIT given to the single caller: one shorter than its
\* scripts, one longer than its scripts and shorter than the plot wrapper around them
ShortLengthLimit == 3

WrapLengthLimit == 100

\* most whitespace characters put between a function name and its parenthesis
MaxGap == 1

\* longest script handed to sanitizeScript on its own
MaxScriptLen == 4

\* largest OCTAVE_SCRIPT_LENGTH_LIMIT value tried besides "unset"
MaxLengthLimit == 3

\* most tokens in a text handed to filterOutput on its own
MaxTokens == 3

\* ------------------------------------------------------------------------
\* Program constants
\* ------------------------------------------------------------------------

defaultExecTimeoutSeconds == 10

defaultConcurrencyLimit == 10

defaultScriptLenLimit == 10000

\* ------------------------------------------------------------------------
\* Text helpers (package strings / strconv)
\* ------------------------------------------------------------------------

NUL == "NUL"

\* the backquote character (U+0060)
BACKTICK == "BACKTICK"

Digits == <<"0", "1", "2", "3", "4", "5", "6", "7", "8", "9">>

IsDigit(c) == \E d \in 1..10 : Digits[d] = c

DigitVal(c) == (CHOOSE d \in 1..10 : Digits[d] = c) - 1

\* the pattern pat occurs in s starting at index i
HasPrefixAt(s, pat, i) ==
    /\ i >= 1
    /\ i + Len(pat) - 1 <= Len(s)
    /\ \A j \in 1..Len(pat) : s[i + j - 1] = pat[j]

\* strings.Contains(s, pat)
Contains(s, pat) == \E i \in 1..(Len(s) + 1) : HasPrefixAt(s, pat, i)

\* variant: strings.Replace(s, c, "", 1), which removes the first occurrence only
RemoveFirstChar(s, c) ==
    IF \E i \in 1..Len(s) : s[i] = c
    THEN LET i == CHOOSE k \in 1..Len(s) : s[k] = c /\ \A j \in 1..(k - 1) : s[j] # c
         IN  SubSeq(s, 1, i - 1) \o SubSeq(s, i + 1, Len(s))
    ELSE s

\* strings.ReplaceAll(s, c, "") for a one-character c
RemoveChar(s, c) == SelectSeq(s, LAMBDA x : x # c)

UpperLetters == <<"A","B","C","D","E","F","G","H","I","J","K","L","M",
                  "N","O","P","Q","R","S","T","U","V","W","X","Y","Z">>

LowerLetters == <<"a","b","c","d","e","f","g","h","i","j","k","l","m",
                  "n","o","p","q","r","s","t","u","v","w","x","y","z">>

IsUpper(c) == \E k \in 1..26 : UpperLetters[k] = c

IsLower(c) == \E k \in 1..26 : LowerLetters[k] = c

LowerChar(c) ==
    IF IsUpper(c) THEN LowerLetters[CHOOSE k \in 1..26 : UpperLetters[k] = c] ELSE c

\* strings.ToLower
ToLower(s) == [i \in 1..Len(s) |-> LowerChar(s[i])]

\* the vertical tab (U+000B)
VT == "VT"

\* the class \s of package regexp
RegexSpace == {" ", "\t", "\n", "\r", "\f"}

\* unicode.IsSpace on the characters of the model's texts
WhiteSpace == RegexSpace \cup {VT}

\* strings.TrimSpace: the text between the first and the last character that is no space
TrimSpace(s) ==
    LET keep == {i \in 1..Len(s) : s[i] \notin WhiteSpace}
    IN  IF keep = {} THEN <<>>
        ELSE SubSeq(s, CHOOSE i \in keep : \A j \in keep : i <= j,
                       CHOOSE i \in keep : \A j \in keep : j <= i)

RECURSIVE DigitsValue(_)
DigitsValue(s) ==
    IF s = <<>> THEN 0 ELSE 10 * DigitsValue(SubSeq(s, 1, Len(s) - 1)) + DigitVal(s[Len(s)])

\* strconv.Atoi: an optional sign followed by at least one decimal digit
Atoi(s) ==
    LET signed == s # <<>> /\ s[1] \in {"+", "-"}
        body   == IF signed THEN Tail(s) ELSE s
    IN  IF body = <<>> \/ \E i \in 1..Len(body) : ~IsDigit(body[i])
        THEN [ok |-> FALSE, val |-> 0]
        ELSE [ok |-> TRUE,
              val |-> IF signed /\ s[1] = "-" THEN 0 - DigitsValue(body) ELSE DigitsValue(body)]

\* "if v, err := strconv.Atoi(s); err == nil && v > 0 { use v }", else the default
PositiveOr(parsed, default) == IF parsed.ok /\ parsed.val > 0 THEN parsed.val ELSE default

\* the pattern
\*   if s := os.Getenv(X); s != "" { if v, err := strconv.Atoi(s); err == nil && v > 0 { use v } }
\* shared by the three configuration values; an unset variable reads as ""
EnvPositiveInt(envValue, default) ==
    IF envValue # <<>> THEN PositiveOr(Atoi(envValue), default) ELSE default

\* 64-bit integers (int, time.Duration) are four 16-bit limbs, least significant first
LimbBase == 2 ^ 16

Zero64 == <<0, 0, 0, 0>>

\* the carries of m * x + a out of the first, second and third limb (m at most 10^4)
Carry1(x, m, a) == (m * x[1] + a) \div LimbBase

Carry2(x, m, a) == (m * x[2] + Carry1(x, m, a)) \div LimbBase

Carry3(x, m, a) == (m * x[3] + Carry2(x, m, a)) \div LimbBase

\* m * x + a on 64 bits: the low 64 bits, and whether higher bits were lost
MulAdd(x, m, a) ==
    [bits |-> <<(m * x[1] + a) % LimbBase,
                (m * x[2] + Carry1(x, m, a)) % LimbBase,
                (m * x[3] + Carry2(x, m, a)) % LimbBase,
                (m * x[4] + Carry3(x, m, a)) % LimbBase>>,
     lost |-> m * x[4] + Carry3(x, m, a) >= LimbBase]

\* the sign bit of a 64-bit value
Negative64(x) == x[4] >= LimbBase \div 2

\* the value of a run of decimal digits on 64 bits, four digits at a time
RECURSIVE ParseDigits(_)
ParseDigitsStep(r, low) ==
    [bits |-> MulAdd(r.bits, 10 ^ 4, low).bits,
     lost |-> r.lost \/ MulAdd(r.bits, 10 ^ 4, low).lost]

ParseDigits(s) ==
    IF Len(s) <= 4 THEN [bits |-> <<DigitsValue(s), 0, 0, 0>>, lost |-> FALSE]
    ELSE ParseDigitsStep(ParseDigits(SubSeq(s, 1, Len(s) - 4)),
                         DigitsValue(SubSeq(s, Len(s) - 3, Len(s))))

\* strconv.Atoi of s when the result is then tested with "err == nil && v > 0":
\* whether the test passes, and the 64 bits of v; a value above 1<<63 - 1 is a range error
AtoiPositive(s) ==
    LET body == IF s # <<>> /\ s[1] = "+" THEN Tail(s) ELSE s
    IN  IF body = <<>> \/ \E i \in 1..Len(body) : ~IsDigit(body[i])
        THEN [ok |-> FALSE, bits |-> Zero64]
        ELSE [ok |-> /\ ~ParseDigits(body).lost
                     /\ ~Negative64(ParseDigits(body).bits)
                     /\ ParseDigits(body).bits # Zero64,
              bits |-> ParseDigits(body).bits]

\* time.Duration(seconds) * time.Second: x * 10^9 nanoseconds on 64 bits
Seconds(x) == MulAdd(MulAdd(MulAdd(x, 10 ^ 4, 0).bits, 10 ^ 4, 0).bits, 10, 0).bits

\* scriptTimeout (versionCheckTimeout in NewRunner) for a value of OCTAVE_SCRIPT_TIMEOUT
scriptTimeout(timeoutEnv) ==
    IF timeoutEnv # <<>> /\ AtoiPositive(timeoutEnv).ok
    THEN AtoiPositive(timeoutEnv).bits
    ELSE <<defaultExecTimeoutSeconds, 0, 0, 0>>

\* context.WithTimeout(ctx, d) with d <= 0 returns a context that is already done
TimeoutElapsed(d) == Negative64(d) \/ d = Zero64

\* ------------------------------------------------------------------------
\* validateScript
\* ------------------------------------------------------------------------

dangerousFunctions ==
    << <<"s","y","s","t","e","m","(">>, <<"e","x","e","c","(">>, <<"p","o","p","e","n","(">>,
       <<"e","v","a","l","(">>, <<"e","v","a","l","i","n","(">>,
       <<"u","r","l","r","e","a","d","(">>, <<"u","r","l","w","r","i","t","e","(">>,
       <<"l","o","a","d","(">>, <<"s","a","v","e","(">>,
       <<"u","n","i","x","(">>, <<"d","o","s","(">>,
       <<"w","a","i","t","p","i","d","(">>, <<"f","o","r","k","(">> >>

dangerousPatterns ==
    << <<";"," ","r","m"," ">>, <<";"," ","d","e","l"," ">>, <<"|"," ","s","h">>,
       <<"|"," ","b","a","s","h">>, <<BACKTICK>>, <<"&","&">>, <<"|","|">> >>

\* variant: a loop that stops at the first element of the list, found in the script or not
FirstListed(script, list, k) == IF k > Len(list) THEN 0 ELSE k

\* "for _, x := range list { if strings.Contains(script, x) {...} }" from element k on:
\* index of the first element of list that occurs in script, 0 if none
RECURSIVE FirstMatch(_, _, _)
FirstMatch(script, list, k) ==
    IF k > Len(list) THEN 0
    ELSE IF Contains(script, list[k]) THEN k
    ELSE FirstMatch(script, list, k + 1)

\* variant: a validator without the loop over dangerousPatterns
NoPatternCheck(k) == [category |-> "nil", fragment |-> <<>>]

\* the loop over dangerousPatterns, having stopped at element k (0: at none)
CheckPatterns(k) ==
    IF k # 0
    THEN [category |-> "dangerous pattern", fragment |-> dangerousPatterns[k]]
    ELSE [category |-> "nil", fragment |-> <<>>]

\* variant: the loop over dangerousPatterns runs before the one over dangerousFunctions
PatternsBeforeFunctions(script, k) ==
    IF FirstMatch(script, dangerousPatterns, 1) # 0
    THEN CheckPatterns(FirstMatch(script, dangerousPatterns, 1))
    ELSE IF k # 0
    THEN [category |-> "dangerous function", fragment |-> dangerousFunctions[k]]
    ELSE [category |-> "nil", fragment |-> <<>>]

\* the loop over dangerousFunctions, having stopped at element k (0: at none)
CheckFunctions(script, k) ==
    IF k # 0
    THEN [category |-> "dangerous function", fragment |-> dangerousFunctions[k]]
    ELSE CheckPatterns(FirstMatch(script, dangerousPatterns, 1))

\* the error of validateScript: category "nil" when the script is accepted
validateScript(script) ==
    IF Contains(script, <<"$", "(">>) \/ Contains(script, <<BACKTICK>>)
    THEN [category |-> "command substitution", fragment |-> <<>>]
    ELSE CheckFunctions(script, FirstMatch(script, dangerousFunctions, 1))

\* ------------------------------------------------------------------------
\* sanitizeScript
\* ------------------------------------------------------------------------

\* variant: a sanitizer that strips the NUL bytes and does not truncate
StripOnly(script, lengthEnv) == RemoveChar(script, NUL)

\* variant: the script handed on as it came
NotSanitized(script, lengthEnv) == script

\* lengthEnv is the value of OCTAVE_SCRIPT_LENGTH_LIMIT read by this call
sanitizeScript(script, lengthEnv) ==
    LET stripped          == RemoveChar(script, NUL)
        scriptLengthLimit == EnvPositiveInt(lengthEnv, defaultScriptLenLimit)
    IN  IF Len(stripped) > scriptLengthLimit
        THEN SubSeq(stripped, 1, scriptLengthLimit)
        ELSE stripped

\* ------------------------------------------------------------------------
\* filterOutput
\* ------------------------------------------------------------------------

UpperSet == {UpperLetters[k] : k \in 1..26}

LowerSet == {LowerLetters[k] : k \in 1..26}

DigitSet == {Digits[k] : k \in 1..10}

\* the class \w, which decides the word boundary \b
WordSet == UpperSet \cup LowerSet \cup DigitSet \cup {"_"}

\* membership in a character class given as a set, or in its complement
InClass(c, set, negated) == IF negated THEN c \notin set ELSE c \in set

\* the last index of the longest run of class characters that starts at i; i - 1 if s[i] is none
RECURSIVE RunEnd(_, _, _, _)
RunEnd(s, i, set, negated) ==
    IF i <= Len(s) /\ InClass(s[i], set, negated)
    THEN RunEnd(s, i + 1, set, negated)
    ELSE i - 1

IsWordAt(s, i) == i >= 1 /\ i <= Len(s) /\ s[i] \in WordSet

\* \b between s[i-1] and s[i]
BoundaryBefore(s, i) == IsWordAt(s, i - 1) # IsWordAt(s, i)

SetMax(S) == CHOOSE x \in S : \A y \in S : y <= x

\* `/[^:\s]*`: last index of the match that starts at i, 0 if there is none
PathMatchEnd(s, i) ==
    IF s[i] = "/" THEN RunEnd(s, i + 1, {":"} \cup RegexSpace, TRUE) ELSE 0

\* `=[^:\s]*` after the name that ends at index j
EnvValueEnd(s, j) ==
    IF j + 1 <= Len(s) /\ s[j + 1] = "="
    THEN RunEnd(s, j + 2, {":"} \cup RegexSpace, TRUE)
    ELSE 0

\* `[A-Z_][A-Z0-9_]*=[^:\s]*`
EnvMatchEnd(s, i) ==
    IF s[i] \in UpperSet \cup {"_"}
    THEN EnvValueEnd(s, RunEnd(s, i + 1, UpperSet \cup DigitSet \cup {"_"}, FALSE))
    ELSE 0

\* the digits of an octet run from i to d: index of the dot that follows, 0 if there is no match
OctetDot(s, i, d) ==
    IF d >= i /\ d - i + 1 <= 3 /\ d + 1 <= Len(s) /\ s[d + 1] = "."
    THEN d + 1
    ELSE 0

\* `[0-9]{1,3}\.` at i: index of the dot, 0 if there is no match
OctetDotEnd(s, i) == OctetDot(s, i, RunEnd(s, i, DigitSet, FALSE))

\* `(?:[0-9]{1,3}\.){n}` at i: index of the last dot, 0 if there is no match
RECURSIVE OctetsEnd(_, _, _)
RECURSIVE NextOctet(_, _, _)
OctetsEnd(s, i, n) == IF n = 0 THEN i - 1 ELSE NextOctet(s, OctetDotEnd(s, i), n)

NextOctet(s, e, n) == IF e = 0 THEN 0 ELSE OctetsEnd(s, e + 1, n - 1)

\* `[0-9]{1,3}\b` after the dot at e, the digits running to d
LastOctet(s, e, d) ==
    IF d >= e + 1 /\ d - e <= 3 /\ BoundaryBefore(s, d + 1) THEN d ELSE 0

IPTail(s, e) == IF e = 0 THEN 0 ELSE LastOctet(s, e, RunEnd(s, e + 1, DigitSet, FALSE))

\* `\b(?:[0-9]{1,3}\.){3}[0-9]{1,3}\b`
IPMatchEnd(s, i) == IF BoundaryBefore(s, i) THEN IPTail(s, OctetsEnd(s, i, 3)) ELSE 0

LocalSet == UpperSet \cup LowerSet \cup DigitSet \cup {".", "_", "%", "+", "-"}

DomainSet == UpperSet \cup LowerSet \cup DigitSet \cup {".", "-"}

\* the class [A-Z|a-z] of the source contains the bar
TLDSet == UpperSet \cup LowerSet \cup {"|"}

\* `\.[A-Z|a-z]{2,}\b` with the dot at index q + 1: the ends the greedy repetition can stop at
TLDEnds(s, q) ==
    IF q + 1 <= Len(s) /\ s[q + 1] = "."
    THEN {r \in (q + 3)..RunEnd(s, q + 2, TLDSet, FALSE) : BoundaryBefore(s, r + 1)}
    ELSE {}

\* the longest match among the domain ends qs
EmailTail(s, qs) == IF qs # {} THEN SetMax(TLDEnds(s, SetMax(qs))) ELSE 0

\* `[A-Za-z0-9.-]+\.[A-Z|a-z]{2,}\b` after the @ at j + 1, the domain characters running to m
EmailDomain(s, j, m) == EmailTail(s, {q \in (j + 2)..m : TLDEnds(s, q) # {}})

\* `[A-Za-z0-9._%+-]+@` from i, the local characters running to j
EmailLocal(s, i, j) ==
    IF j >= i /\ j + 1 <= Len(s) /\ s[j + 1] = "@"
    THEN EmailDomain(s, j, RunEnd(s, j + 2, DomainSet, FALSE))
    ELSE 0

\* `\b[A-Za-z0-9._%+-]+@[A-Za-z0-9.-]+\.[A-Z|a-z]{2,}\b`
EmailMatchEnd(s, i) ==
    IF BoundaryBefore(s, i) THEN EmailLocal(s, i, RunEnd(s, i, LocalSet, FALSE)) ELSE 0

MatchEnd(kind, s, i) ==
    CASE kind = "path"  -> PathMatchEnd(s, i)
      [] kind = "env"   -> EnvMatchEnd(s, i)
      [] kind = "ip"    -> IPMatchEnd(s, i)
      [] kind = "email" -> EmailMatchEnd(s, i)

\* regexp.ReplaceAllString from index i on: leftmost matches, left to right, not overlapping
RECURSIVE ReplaceFrom(_, _, _, _)
RECURSIVE ReplaceStep(_, _, _, _, _)
ReplaceFrom(kind, s, i, repl) ==
    IF i > Len(s) THEN <<>> ELSE ReplaceStep(kind, s, i, repl, MatchEnd(kind, s, i))

\* e is the end of the match at i, 0 if there is none
ReplaceStep(kind, s, i, repl, e) ==
    IF e # 0
    THEN repl \o ReplaceFrom(kind, s, e + 1, repl)
    ELSE <<s[i]>> \o ReplaceFrom(kind, s, i + 1, repl)

RedactedPath == <<"/","[","R","E","D","A","C","T","E","D","]">>

Redacted == <<"[","R","E","D","A","C","T","E","D","]">>

\* variant: a replacement text that the environment variable pattern matches
IPAssignment == <<"I","P","=","0">>

IPAddress == <<"[","I","P","_","A","D","D","R","E","S","S","]">>

Email == <<"[","E","M","A","I","L","]">>

filterOutput(output) ==
    LET o1 == ReplaceFrom("path", output, 1, RedactedPath)
        o2 == ReplaceFrom("env", o1, 1, Redacted)
        o3 == ReplaceFrom("ip", o2, 1, IPAddress)
    IN  ReplaceFrom("email", o3, 1, Email)

\* ------------------------------------------------------------------------
\* Inputs of the calls
\* ------------------------------------------------------------------------

Procs == 1..NumProcs

\* "", "plot(1)" (accepted by the validator) and "eval(" (rejected)
EmptyScript == <<>>

OkScript == <<"p","l","o","t","(","1",")">>

BadScript == <<"e","v","a","l","(">>

Scripts == {EmptyScript, OkScript, BadScript}

Png == <<"p","n","g">>

Svg == <<"s","v","g">>

Formats == {Png, <<"J","P","G">>}

\* what the interpreter may write to stdout and to stderr
Stdouts == {<<>>, <<"a","n","s"," ","="," ","/","x","\n">>}

Stderrs == {<<>>, <<"e","r","r","o","r",":"," ","/","x","\n">>}

\* values of OCTAVE_CONCURRENCY_LIMIT: unset, or 1..MaxLimit in decimal
RECURSIVE Itoa(_)
Itoa(n) == IF n < 10 THEN <<Digits[n + 1]>> ELSE Itoa(n \div 10) \o <<Digits[(n % 10) + 1]>>

EnvLimitValues == {<<>>} \cup {Itoa(n) : n \in 1..MaxLimit}

\* ------------------------------------------------------------------------
\* Errors and results
\* ------------------------------------------------------------------------

Err(kind, cause, fragment) == [kind |-> kind, cause |-> cause, fragment |-> fragment]

NilErr == Err("nil", "", <<>>)

\* ctx.Err(): context.Canceled or context.DeadlineExceeded
CtxErr == Err("context", "", <<>>)

NoResult == [text |-> <<>>, err |-> Err("none", "", <<>>)]

NoPlot == [bytes |-> "nil", err |-> Err("none", "", <<>>)]

\* ------------------------------------------------------------------------
\* State
\* ------------------------------------------------------------------------

VARIABLES
    env,        \* the process environment: [timeout, limit, length]
    capacity,   \* cap(r.semaphore)
    semaphore,  \* len(r.semaphore)
    call,       \* per caller: the call in progress [op, script, format]
    ctx,        \* per caller: the caller's context, "live" or "done"
    pc,         \* per caller: where the call stands
    subprocs,   \* the callers whose interpreter subprocess is running
    spawned,    \* per caller: subprocesses started by the current call
    acquired,   \* per caller: slots taken by the current call
    tempDir,    \* per caller: "none", "exists" or "removed"
    mkdirs,     \* per caller: temp directories created by the current call
    rmFailed,   \* per caller: os.RemoveAll returned an error
    plotFile,   \* per caller: the plot file exists in the temp directory
    evalArg,    \* per caller: the --eval argument of the subprocess
    exit,       \* per caller: how the subprocess ended
    esRes,      \* per caller: what ExecuteScript returned
    gpRes,      \* per caller: what GeneratePlot returned
    probe       \* a function of the package applied on its own: [fn, arg, applied, text, err]

vars == <<env, capacity, semaphore, call, ctx, pc, subprocs, spawned, acquired,
          tempDir, mkdirs, rmFailed, plotFile, evalArg, exit, esRes, gpRes, probe>>

\* the state of the Runner and of its callers
runnerVars == <<env, capacity, semaphore, call, ctx, pc, subprocs, spawned, acquired,
                tempDir, mkdirs, rmFailed, plotFile, evalArg, exit, esRes, gpRes>>

fsVars == <<tempDir, mkdirs, rmFailed, plotFile>>

procVars == <<subprocs, spawned, evalArg, exit>>

\* NewRunner: the capacity of the semaphore channel
NewRunnerLimit(limitEnv) == EnvPositiveInt(limitEnv, defaultConcurrencyLimit)

\* no call is in progress and no slot is taken
InitCalls ==
    /\ semaphore = 0
    /\ call = [p \in Procs |-> [op |-> "none", script |-> <<>>, format |-> <<>>]]
    /\ ctx = [p \in Procs |-> "live"]
    /\ pc = [p \in Procs |-> "idle"]
    /\ subprocs = {}
    /\ spawned = [p \in Procs |-> 0]
    /\ acquired = [p \in Procs |-> 0]
    /\ tempDir = [p \in Procs |-> "none"]
    /\ mkdirs = [p \in Procs |-> 0]
    /\ rmFailed = [p \in Procs |-> FALSE]
    /\ plotFile = [p \in Procs |-> FALSE]
    /\ evalArg = [p \in Procs |-> <<>>]
    /\ exit = [p \in Procs |-> "none"]
    /\ esRes = [p \in Procs |-> NoResult]
    /\ gpRes = [p \in Procs |-> NoPlot]

InitEnv(timeouts, limits, lengths) ==
    /\ env \in [timeout : timeouts, limit : limits, length : lengths]
    /\ capacity = NewRunnerLimit(env.limit)
    /\ InitCalls

\* no function is applied on its own
NoProbe == [fn |-> "none", arg |-> <<>>, applied |-> FALSE, text |-> <<>>, err |-> NilErr]

Init == InitEnv({<<>>}, EnvLimitValues, {<<>>}) /\ probe = NoProbe

\* ------------------------------------------------------------------------
\* The semaphore
\* ------------------------------------------------------------------------

\* variant: a send that never blocks, as on a channel without a capacity limit
AlwaysAcquire(len, cap) == TRUE

\* the case "r.semaphore <- struct{}{}" of the select can proceed
CanAcquire(len, cap) == len < cap

\* the case "<-ctx.Done()" of the select can proceed
CtxDone(c) == c = "done"

\* variant: a return path that skips the deferred receive
NoRelease(len) == len

\* the deferred "<-r.semaphore"
Release(len) == len - 1

\* variant: the release registered before the select, so that a cancelled wait receives too
CancelledWaitReleases(len) == len - 1

\* the semaphore after "return ..., ctx.Err()" in the select: the defer is not yet registered
CancelledWait(len) == len

\* ------------------------------------------------------------------------
\* Callers
\* ------------------------------------------------------------------------

\* a caller invokes ExecuteScript(ctx, script) or GeneratePlot(ctx, script, format)
Start(p, op, script, format, c) ==
    /\ pc[p] \in {"idle", "done"}
    /\ call' = [call EXCEPT ![p] = [op |-> op, script |-> script, format |-> format]]
    /\ ctx' = [ctx EXCEPT ![p] = c]
    /\ pc' = [pc EXCEPT ![p] = IF op = "GeneratePlot" THEN "gp_acquire" ELSE "es_acquire"]
    /\ spawned' = [spawned EXCEPT ![p] = 0]
    /\ acquired' = [acquired EXCEPT ![p] = 0]
    /\ tempDir' = [tempDir EXCEPT ![p] = "none"]
    /\ mkdirs' = [mkdirs EXCEPT ![p] = 0]
    /\ rmFailed' = [rmFailed EXCEPT ![p] = FALSE]
    /\ plotFile' = [plotFile EXCEPT ![p] = FALSE]
    /\ evalArg' = [evalArg EXCEPT ![p] = <<>>]
    /\ exit' = [exit EXCEPT ![p] = "none"]
    /\ esRes' = [esRes EXCEPT ![p] = NoResult]
    /\ gpRes' = [gpRes EXCEPT ![p] = NoPlot]
    /\ UNCHANGED <<probe, env, capacity, semaphore, subprocs>>

StartExecuteScript(p) ==
    \E script \in Scripts, c \in {"live", "done"} :
        Start(p, "ExecuteScript", script, <<>>, c)

StartGeneratePlot(p) ==
    \E script \in Scripts, format \in Formats, c \in {"live", "done"} :
        Start(p, "GeneratePlot", script, format, c)

\* the caller cancels, or the caller's deadline passes
Cancel(p) ==
    /\ pc[p] \notin {"idle", "done"}
    /\ ctx[p] = "live"
    /\ ctx' = [ctx EXCEPT ![p] = "done"]
    /\ UNCHANGED <<probe, env, capacity, semaphore, call, pc, acquired, esRes, gpRes, fsVars, procVars>>

\* ------------------------------------------------------------------------
\* ExecuteScript
\* ------------------------------------------------------------------------

WrapHead == <<"\n","g","r","a","p","h","i","c","s","_","t","o","o","l","k","i","t","(","\"",
              "g","n","u","p","l","o","t","\"",")",";","\n",
              "s","e","t","(","0",","," ","\"","d","e","f","a","u","l","t","f","i","g","u","r","e",
              "v","i","s","i","b","l","e","\"",","," ","\"","o","f","f","\"",")",";","\n">>

PrintHead == <<"\n","p","r","i","n","t","(","\"">>

PrintTail == <<"\"",")",";","\n">>

\* the directory os.MkdirTemp("", "octave-plot-*") makes for caller p
TempDirName(p) ==
    <<"/","t","m","p","/","o","c","t","a","v","e","-","p","l","o","t","-">> \o Itoa(p)

\* filepath.Join(tempDir, "plot."+format)
PlotFilePath(p, format) == TempDirName(p) \o <<"/","p","l","o","t",".">> \o format

\* the command that writes the figure
PrintCommand(p, format) == PrintHead \o PlotFilePath(p, format) \o PrintTail

\* fmt.Sprintf of the wrapper around the sanitized script
wrappedScript(p, script, format, lengthEnv) ==
    WrapHead \o sanitizeScript(script, lengthEnv) \o PrintCommand(p, format)

\* the script argument of the ExecuteScript call of caller p
ScriptArg(p) ==
    IF call[p].op = "GeneratePlot"
    THEN wrappedScript(p, call[p].script, ToLower(call[p].format), env.length)
    ELSE call[p].script

\* variant: a command built with exec.Command, which does not look at the context
ExecCtxIgnored(c) == FALSE

\* the context of the command, context.WithTimeout(ctx, scriptTimeout), is done
\* when the caller's is or when the timeout is not positive: cmd.Run then returns
\* ctx.Err() without starting a process
ExecCtxDone(c) == CtxDone(c) \/ TimeoutElapsed(Seconds(scriptTimeout(env.timeout)))

\* variant: the error of cmd.Run dropped
RunErrorDropped(outcome) == NilErr

\* the error of cmd.Run: for a process that could not be started (the executable is
\* missing, fork fails), and for one that was started and ended
RunError(outcome) ==
    CASE outcome = "not started" -> Err("exec", "", <<>>)
      [] outcome = "0"           -> NilErr
      [] outcome = "1"           -> Err("exit status", "", <<>>)
      [] outcome = "killed"      -> Err("signal: killed", "", <<>>)

\* variant: stderr put in front of the result as the subprocess wrote it
StderrUnfiltered(result, stderr, err) ==
    IF err.kind # "nil"
    THEN [text |-> stderr \o <<"\n">> \o result, err |-> err]
    ELSE [text |-> result, err |-> NilErr]

\* "if err != nil { return stderr + "\n" + result, err }; return result, nil"
ReturnAfterRun(result, stderr, err) ==
    IF err.kind # "nil"
    THEN [text |-> filterOutput(stderr) \o <<"\n">> \o result, err |-> err]
    ELSE [text |-> result, err |-> NilErr]

\* the two results after cmd.Run
RunResult(stdout, stderr, err) == ReturnAfterRun(filterOutput(TrimSpace(stdout)), stderr, err)

\* variant: the command run again after it returned
RunAgain(p) == "es_admit"

\* where the caller of ExecuteScript continues
AfterExecuteScript(p) == IF call[p].op = "GeneratePlot" THEN "gp_finish" ELSE "done"

\* variant: the slot given back when the command is started
ReleasedAtStart(s) == s - 1

\* the deferred release does not run before cmd.Run returns: the slot stays taken while
\* the subprocess runs
HeldDuringRun(s) == s

\* select, case r.semaphore <- struct{}{}
ESAcquire(p) ==
    /\ pc[p] = "es_acquire"
    /\ CanAcquire(semaphore, capacity)
    /\ semaphore' = semaphore + 1
    /\ acquired' = [acquired EXCEPT ![p] = @ + 1]
    /\ pc' = [pc EXCEPT ![p] = "es_admit"]
    /\ UNCHANGED <<probe, env, capacity, call, ctx, esRes, gpRes, fsVars, procVars>>

\* select, case <-ctx.Done(): return "", ctx.Err()
ESCancelWait(p) ==
    /\ pc[p] = "es_acquire"
    /\ CtxDone(ctx[p])
    /\ esRes' = [esRes EXCEPT ![p] = [text |-> <<>>, err |-> CtxErr]]
    /\ semaphore' = CancelledWait(semaphore)
    /\ pc' = [pc EXCEPT ![p] = AfterExecuteScript(p)]
    /\ UNCHANGED <<probe, env, capacity, call, ctx, acquired, gpRes, fsVars, procVars>>

\* with the slot held: the empty check, validateScript, sanitizeScript and the
\* start of the command (cmd.Run returns at once when the context is done or the
\* process cannot be started); every return runs the deferred release
ESAdmit(p) ==
    /\ pc[p] = "es_admit"
    /\ LET script == ScriptArg(p)
           verr   == validateScript(script)
       IN  IF script = <<>>
           THEN /\ esRes' = [esRes EXCEPT ![p] =
                        [text |-> <<>>, err |-> Err("script cannot be empty", "", <<>>)]]
                /\ semaphore' = Release(semaphore)
                /\ pc' = [pc EXCEPT ![p] = AfterExecuteScript(p)]
                /\ UNCHANGED procVars
           ELSE IF verr.category # "nil"
           THEN /\ esRes' = [esRes EXCEPT ![p] =
                        [text |-> <<>>,
                         err |-> Err("invalid script", verr.category, verr.fragment)]]
                /\ semaphore' = Release(semaphore)
                /\ pc' = [pc EXCEPT ![p] = AfterExecuteScript(p)]
                /\ UNCHANGED procVars
           ELSE IF ExecCtxDone(ctx[p])
           THEN /\ esRes' = [esRes EXCEPT ![p] = RunResult(<<>>, <<>>, CtxErr)]
                /\ semaphore' = Release(semaphore)
                /\ pc' = [pc EXCEPT ![p] = AfterExecuteScript(p)]
                /\ UNCHANGED procVars
           ELSE \E started \in BOOLEAN :
                IF started
                THEN /\ subprocs' = subprocs \cup {p}
                     /\ spawned' = [spawned EXCEPT ![p] = @ + 1]
                     /\ evalArg' = [evalArg EXCEPT ![p] = sanitizeScript(script, env.length)]
                     /\ pc' = [pc EXCEPT ![p] = "es_run"]
                     /\ semaphore' = HeldDuringRun(semaphore)
                     /\ UNCHANGED <<esRes, exit>>
                ELSE /\ esRes' = [esRes EXCEPT ![p] =
                             RunResult(<<>>, <<>>, RunError("not started"))]
                     /\ exit' = [exit EXCEPT ![p] = "not started"]
                     /\ semaphore' = Release(semaphore)
                     /\ pc' = [pc EXCEPT ![p] = AfterExecuteScript(p)]
                     /\ UNCHANGED <<subprocs, spawned, evalArg>>
    /\ UNCHANGED <<probe, env, capacity, call, ctx, acquired, gpRes, fsVars>>

\* the figure file can appear only if the executed text still ends with the print command
CanWritePlot(p) ==
    /\ call[p].op = "GeneratePlot"
    /\ tempDir[p] = "exists"
    /\ LET cmd == PrintCommand(p, ToLower(call[p].format))
       IN  HasPrefixAt(evalArg[p], cmd, Len(evalArg[p]) - Len(cmd) + 1)

\* the subprocess ends (exit status 0, exit status 1, or killed when the command's
\* context is done: the caller's cancellation or the script timeout). cmd.Run returns
\* once the output pipes are at end of file as well: at once when no other process holds
\* them, the output then being filtered and the deferred release run; not yet when a
\* descendant of the interpreter, which the kill does not reach, still holds them
ESWait(p) ==
    /\ pc[p] = "es_run"
    /\ \E outcome \in {"0", "1", "killed"}, stdout \in Stdouts, stderr \in Stderrs,
          wrote \in BOOLEAN, orphan \in BOOLEAN :
        /\ wrote => (outcome = "0" /\ CanWritePlot(p))
        /\ outcome = "0" => stderr = <<>>
        /\ orphan => (stdout = <<>> /\ stderr = <<>>)
        /\ subprocs' = subprocs \ {p}
        /\ exit' = [exit EXCEPT ![p] = outcome]
        /\ plotFile' = [plotFile EXCEPT ![p] = wrote]
        /\ IF orphan
           THEN /\ pc' = [pc EXCEPT ![p] = "es_drain"]
                /\ UNCHANGED <<semaphore, esRes>>
           ELSE /\ esRes' = [esRes EXCEPT ![p] = RunResult(stdout, stderr, RunError(outcome))]
                /\ semaphore' = Release(semaphore)
                /\ pc' = [pc EXCEPT ![p] = AfterExecuteScript(p)]
    /\ UNCHANGED <<probe, env, capacity, call, ctx, acquired, gpRes, spawned, evalArg,
                   tempDir, mkdirs, rmFailed>>

\* the descendants that held the output pipes have closed them: cmd.Run returns with the
\* error of the process that ended, the output is filtered and the deferred release runs
ESDrain(p) ==
    /\ pc[p] = "es_drain"
    /\ \E stdout \in Stdouts, stderr \in Stderrs :
        /\ exit[p] = "0" => stderr = <<>>
        /\ esRes' = [esRes EXCEPT ![p] = RunResult(stdout, stderr, RunError(exit[p]))]
    /\ semaphore' = Release(semaphore)
    /\ pc' = [pc EXCEPT ![p] = AfterExecuteScript(p)]
    /\ UNCHANGED <<probe, env, capacity, call, ctx, acquired, gpRes, fsVars, procVars>>

\* ------------------------------------------------------------------------
\* GeneratePlot
\* ------------------------------------------------------------------------

\* format != "png" && format != "svg", after strings.ToLower
SupportedFormat(format) == format = Png \/ format = Svg

\* os.RemoveAll(tempDir): the directory is gone unless the removal fails
RemoveAll(dir, rm) == IF rm = "ok" THEN "removed" ELSE dir

\* variant: no deferred removal
NoCleanup(dir, rm) == dir

\* the deferred func() { os.RemoveAll(tempDir) } registered after the chmod
DeferredCleanup(dir, rm) == RemoveAll(dir, rm)

\* variant: an error returned with an empty, non-nil slice
PlotErrorWithBytes(err) == [bytes |-> "empty", err |-> err]

\* "return nil, err"
PlotError(err) == [bytes |-> "nil", err |-> err]

\* select, case r.semaphore <- struct{}{}
GPAcquire(p) ==
    /\ pc[p] = "gp_acquire"
    /\ CanAcquire(semaphore, capacity)
    /\ semaphore' = semaphore + 1
    /\ acquired' = [acquired EXCEPT ![p] = @ + 1]
    /\ pc' = [pc EXCEPT ![p] = "gp_admit"]
    /\ UNCHANGED <<probe, env, capacity, call, ctx, esRes, gpRes, fsVars, procVars>>

\* select, case <-ctx.Done(): return nil, ctx.Err()
GPCancelWait(p) ==
    /\ pc[p] = "gp_acquire"
    /\ CtxDone(ctx[p])
    /\ gpRes' = [gpRes EXCEPT ![p] = PlotError(CtxErr)]
    /\ semaphore' = CancelledWait(semaphore)
    /\ pc' = [pc EXCEPT ![p] = "done"]
    /\ UNCHANGED <<probe, env, capacity, call, ctx, acquired, esRes, fsVars, procVars>>

\* GeneratePlot returns err before the nested call: the deferred release runs
GPFail(p, err) ==
    /\ gpRes' = [gpRes EXCEPT ![p] = PlotError(err)]
    /\ semaphore' = Release(semaphore)
    /\ pc' = [pc EXCEPT ![p] = "done"]

\* with the slot held: the format check, validateScript, os.MkdirTemp, os.Chmod,
\* the wrapper, and the call of ExecuteScript
GPAdmit(p) ==
    /\ pc[p] = "gp_admit"
    /\ \E mk \in {"ok", "fail"}, ch \in {"ok", "fail"}, rm \in {"ok", "fail"} :
        LET format == ToLower(call[p].format)
            verr   == validateScript(call[p].script)
        IN  IF ~SupportedFormat(format)
            THEN /\ GPFail(p, Err("unsupported format", "", format))
                 /\ UNCHANGED fsVars
            ELSE IF verr.category # "nil"
            THEN /\ GPFail(p, Err("invalid script", verr.category, verr.fragment))
                 /\ UNCHANGED fsVars
            ELSE IF mk = "fail"
            THEN /\ GPFail(p, Err("failed to create temp dir", "", <<>>))
                 /\ UNCHANGED fsVars
            ELSE IF ch = "fail"
            THEN /\ GPFail(p, Err("failed to set permissions on temp dir", "", <<>>))
                 /\ tempDir' = [tempDir EXCEPT ![p] = RemoveAll("exists", rm)]
                 /\ mkdirs' = [mkdirs EXCEPT ![p] = @ + 1]
                 /\ rmFailed' = [rmFailed EXCEPT ![p] = (rm = "fail")]
                 /\ UNCHANGED plotFile
            ELSE /\ tempDir' = [tempDir EXCEPT ![p] = "exists"]
                 /\ mkdirs' = [mkdirs EXCEPT ![p] = @ + 1]
                 /\ pc' = [pc EXCEPT ![p] = "es_acquire"]
                 /\ UNCHANGED <<semaphore, gpRes, rmFailed, plotFile>>
    /\ UNCHANGED <<probe, env, capacity, call, ctx, acquired, esRes, procVars>>

\* variant: os.ReadFile called before the error of ExecuteScript is looked at
PlotResultReadFirst(res, fileExists) ==
    IF ~fileExists
    THEN PlotError(Err("failed to read plot file", "", <<>>))
    ELSE IF res.err.kind # "nil"
    THEN PlotError(Err("plot generation failed", res.err.kind, <<>>))
    ELSE [bytes |-> "image", err |-> NilErr]

\* res is what the nested ExecuteScript returned: "plot generation failed: %w" wraps its
\* error; otherwise os.ReadFile(plotFile) fails when the file does not exist, and returns
\* the (non-nil) contents when it does
PlotResult(res, fileExists) ==
    IF res.err.kind # "nil"
    THEN PlotError(Err("plot generation failed", res.err.kind, <<>>))
    ELSE IF ~fileExists
    THEN PlotError(Err("failed to read plot file", "", <<>>))
    ELSE [bytes |-> "image", err |-> NilErr]

\* after ExecuteScript returned: the error check, os.ReadFile, and on return the
\* deferred removal of the temp directory and the deferred release
GPFinish(p) ==
    /\ pc[p] = "gp_finish"
    /\ \E rm \in {"ok", "fail"} :
        /\ gpRes' = [gpRes EXCEPT ![p] = PlotResult(esRes[p], plotFile[p])]
        /\ tempDir' = [tempDir EXCEPT ![p] = DeferredCleanup(tempDir[p], rm)]
        /\ rmFailed' = [rmFailed EXCEPT ![p] = (rm = "fail")]
        /\ plotFile' = [plotFile EXCEPT ![p] = IF rm = "ok" THEN FALSE ELSE @]
    /\ semaphore' = Release(semaphore)
    /\ pc' = [pc EXCEPT ![p] = "done"]
    /\ UNCHANGED <<probe, env, capacity, call, ctx, acquired, esRes, mkdirs, procVars>>

\* ------------------------------------------------------------------------
\* The tool handlers (internal/server/server.go)
\* ------------------------------------------------------------------------

\* run_octave: res is what ExecuteScript returns; without a script the runner is not called
runOctaveHandler(script, res) ==
    IF script = <<>>
    THEN [hasResult |-> FALSE, IsError |-> FALSE, Text |-> <<>>,
          err |-> "script parameter is required"]
    ELSE [hasResult |-> TRUE, IsError |-> res.err.kind # "nil", Text |-> res.text,
          err |-> "nil"]

\* "switch params.Arguments.Format": the format as the request gave it
mimeType(format) ==
    CASE format = Svg -> "image/svg+xml"
      [] format = Png -> "image/png"
      [] OTHER        -> "application/octet-stream"

\* generate_plot: res is what GeneratePlot returns; without a script the runner is not
\* called, an error becomes a text result, and the image gets the MIME type of the format
generatePlotHandler(script, format, res) ==
    IF script = <<>>
    THEN [hasResult |-> FALSE, IsError |-> FALSE, Data |-> "nil", MIMEType |-> "",
          err |-> "script parameter is required"]
    ELSE IF res.err.kind # "nil"
    THEN [hasResult |-> TRUE, IsError |-> TRUE, Data |-> "nil", MIMEType |-> "",
          err |-> "nil"]
    ELSE [hasResult |-> TRUE, IsError |-> FALSE, Data |-> res.bytes,
          MIMEType |-> mimeType(format), err |-> "nil"]

\* ------------------------------------------------------------------------
\* Specification
\* ------------------------------------------------------------------------

Next ==
    \E p \in Procs :
        \/ StartExecuteScript(p)
        \/ StartGeneratePlot(p)
        \/ Cancel(p)
        \/ ESAcquire(p)
        \/ ESCancelWait(p)
        \/ ESAdmit(p)
        \/ ESWait(p)
        \/ ESDrain(p)
        \/ GPAcquire(p)
        \/ GPCancelWait(p)
        \/ GPAdmit(p)
        \/ GPFinish(p)

Spec == Init /\ [][Next]_vars

\* ------------------------------------------------------------------------
\* The functions of the package applied on their own
\* ------------------------------------------------------------------------

\* the sequences over S of length at most n
RECURSIVE SeqsUpTo(_, _)
SeqsUpTo(S, n) ==
    IF n = 0 THEN {<<>>}
    ELSE LET shorter == SeqsUpTo(S, n - 1)
         IN  shorter \cup {Append(t, x) : t \in {u \in shorter : Len(u) = n - 1}, x \in S}

\* the concatenation of a sequence of texts
RECURSIVE Concat(_)
Concat(ts) == IF ts = <<>> THEN <<>> ELSE Head(ts) \o Concat(Tail(ts))

UpperChar(c) ==
    IF IsLower(c) THEN UpperLetters[CHOOSE k \in 1..26 : LowerLetters[k] = c] ELSE c

ToUpper(s) == [i \in 1..Len(s) |-> UpperChar(s[i])]

\* SyStEm for system
MixedCase(s) == [i \in 1..Len(s) |-> IF i % 2 = 1 THEN UpperChar(s[i]) ELSE s[i]]

\* the names of the deny-listed functions, without the parenthesis
FunctionNames ==
    {SubSeq(dangerousFunctions[k], 1, Len(dangerousFunctions[k]) - 1) :
        k \in 1..Len(dangerousFunctions)}

\* a name as written by a caller: as listed, in capitals, in mixed case
Spellings(name) == {name, ToUpper(name), MixedCase(name)}

\* whitespace between the name and the parenthesis
Gaps == SeqsUpTo({" ", "\t"}, MaxGap)

\* what precedes the call in the script
CallPrefixes == {<<>>, <<"x", "=", "1", ";", "\n">>}

\* the arguments of the call
CallTail == <<"(", "'", "l", "s", "'", ")">>

\* scripts that call a deny-listed function
CallScripts ==
    {pre \o sp \o gap \o CallTail :
        pre \in CallPrefixes, sp \in UNION {Spellings(n) : n \in FunctionNames}, gap \in Gaps}

\* the shell fragments the validator looks for
ShellFragments ==
    {<<"$", "(">>, <<BACKTICK>>} \cup {dangerousPatterns[k] : k \in 1..Len(dangerousPatterns)}

\* scripts with a shell fragment at the start, in the middle and at the end
ShellScripts ==
    {pre \o frag \o post :
        pre \in {<<>>, <<"a">>}, frag \in ShellFragments, post \in {<<>>, <<"b">>}}

\* scripts of arithmetic, matrix and plotting calls, and near misses of the deny list
PlainScripts ==
    {<<"x", " ", "=", " ", "1", " ", "+", " ", "1", ";">>,
     <<"p", "l", "o", "t", "(", "[", "1", ",", "2", ",", "3", "]", ")", ";">>,
     <<"A", " ", "=", " ", "[", "1", " ", "2", ";", " ", "3", " ", "4", "]", ";">>,
     <<"s", "y", "s", "t", "e", "m">>,
     <<"e", "v", "a", "l", "s", "(", "1", ")">>,
     <<"a", " ", "|", " ", "b", " ", "&", " ", "c">>,
     <<"x", ";", " ", "r", "m", "s", "(", "x", ")">>,
     <<"$", "x", " ", "(", ")">>,
     <<>>}

\* scripts that match more than one check of the validator
MixedScripts ==
    {<<"e", "v", "a", "l", "(", "s", "y", "s", "t", "e", "m", "(">>,
     <<"a", "|", "|", "b", "&", "&", "c">>,
     <<"e", "v", "a", "l", "(", "1", ")", "|", "|", "$", "(">>,
     <<"e", "v", "a", "l", "(", "1", ")", "|", "|", "x">>,
     <<BACKTICK, "&", "&", "d", "o", "s", "(">>}

ValidateArgs == CallScripts \cup ShellScripts \cup PlainScripts \cup MixedScripts

\* scripts of letters and NUL bytes
SanitizeArgs == SeqsUpTo({"a", NUL}, MaxScriptLen)

\* values of OCTAVE_SCRIPT_LENGTH_LIMIT: unset, or 1..MaxLengthLimit in decimal
EnvLengthValues == {<<>>} \cup {Itoa(n) : n \in 1..MaxLengthLimit}

\* pieces of interpreter output: a path, an assignment, an address, an email, separators
Tokens ==
    {<<"/", "x">>, <<"A", "=", "1">>, <<"1", ".", "2", ".", "3", ".", "4">>,
     <<"a", "@", "b", ".", "c", "d">>, <<":">>, <<" ">>, <<"=">>, <<"x">>}

FilterArgs == {Concat(ts) : ts \in SeqsUpTo(Tokens, MaxTokens)}

\* the function fn is to be applied to arg
Probe(fn, arg) ==
    [fn |-> fn, arg |-> arg, applied |-> FALSE, text |-> <<>>, err |-> NilErr]

Probes ==
    {Probe("validateScript", a) : a \in ValidateArgs}
    \cup {Probe("sanitizeScript", a) : a \in SanitizeArgs}
    \cup {Probe("filterOutput", a) : a \in FilterArgs}

\* a fresh Runner, an environment, and a function with its argument
FnInit ==
    /\ InitEnv({<<>>}, {<<>>}, EnvLengthValues)
    /\ probe \in Probes
    /\ env.length # <<>> => probe.fn = "sanitizeScript"

\* err := validateScript(script); the script itself is passed by value
ApplyValidate ==
    /\ probe.fn = "validateScript"
    /\ ~probe.applied
    /\ probe' = [probe EXCEPT !.applied = TRUE, !.text = probe.arg,
                              !.err = Err("validation", validateScript(probe.arg).category,
                                          validateScript(probe.arg).fragment)]
    /\ UNCHANGED runnerVars

\* sanitizedScript := sanitizeScript(script)
ApplySanitize ==
    /\ probe.fn = "sanitizeScript"
    /\ ~probe.applied
    /\ probe' = [probe EXCEPT !.applied = TRUE,
                              !.text = sanitizeScript(probe.arg, env.length)]
    /\ UNCHANGED runnerVars

\* result = filterOutput(result)
ApplyFilter ==
    /\ probe.fn = "filterOutput"
    /\ ~probe.applied
    /\ probe' = [probe EXCEPT !.applied = TRUE, !.text = filterOutput(probe.arg)]
    /\ UNCHANGED runnerVars

FnNext == ApplyValidate \/ ApplySanitize \/ ApplyFilter

FnSpec == FnInit /\ [][FnNext]_vars

\* what the runtime and the operating system guarantee of a call that can take a step:
\* a goroutine that can run does, a select with a ready case returns, and a subprocess
\* ends, at the latest when its context's deadline kills it. No caller has to cancel or to
\* call again, and nothing makes a descendant that holds the output pipes close them
Fairness ==
    \A p \in Procs :
        /\ WF_vars(ESAcquire(p)) /\ WF_vars(ESAdmit(p)) /\ WF_vars(ESWait(p))
        /\ WF_vars(GPAcquire(p)) /\ WF_vars(GPAdmit(p)) /\ WF_vars(GPFinish(p))
        /\ WF_vars(ESCancelWait(p)) /\ WF_vars(GPCancelWait(p))

LiveSpec == Init /\ [][Next]_vars /\ Fairness

\* ------------------------------------------------------------------------
\* NewRunner and the environment
\* ------------------------------------------------------------------------

\* values the three checks "!= "", err == nil, > 0" reject: unset, abc, 0, -5, 1.5, and
\* 99999999999999999999, which strconv.Atoi rejects as out of range
InvalidConfigTexts ==
    {<<>>, <<"a", "b", "c">>, <<"0">>, <<"-", "5">>, <<"1", ".", "5">>}

OutOfRangeText == [i \in 1..20 |-> "9"]

\* 9223372036 and 9223372037 seconds: the largest number of seconds whose nanoseconds fit
\* 63 bits, and the next one
LongTimeouts ==
    {<<"9","2","2","3","3","7","2","0","3","6">>, <<"9","2","2","3","3","7","2","0","3","7">>}

EnvTimeoutValues ==
    InvalidConfigTexts \cup {OutOfRangeText} \cup LongTimeouts
    \cup {Itoa(n) : n \in 1..MaxConfigValue}

EnvConfigValues == InvalidConfigTexts \cup {Itoa(n) : n \in 1..MaxConfigValue}

\* the environment of the process, before NewRunner is called
CfgInit ==
    /\ env \in [timeout : EnvTimeoutValues, limit : EnvConfigValues, length : EnvConfigValues]
    /\ capacity = 0
    /\ InitCalls
    /\ probe = Probe("NewRunner", <<>>)

\* NewRunner: octave-cli --version under a context with the version check timeout (the
\* process exits when the command fails or prints no version), then the Runner with its
\* semaphore
ApplyNewRunner ==
    /\ probe.fn = "NewRunner"
    /\ ~probe.applied
    /\ \E version \in {"ok", "fail"} :
        IF TimeoutElapsed(Seconds(scriptTimeout(env.timeout)))
        THEN /\ probe' = [probe EXCEPT !.applied = TRUE,
                                       !.err = Err("os.Exit(1)", "context", <<>>)]
             /\ UNCHANGED capacity
        ELSE IF version = "fail"
        THEN /\ probe' = [probe EXCEPT !.applied = TRUE,
                                       !.err = Err("os.Exit(1)", "octave-cli", <<>>)]
             /\ UNCHANGED capacity
        ELSE /\ probe' = [probe EXCEPT !.applied = TRUE]
             /\ capacity' = NewRunnerLimit(env.limit)
    /\ UNCHANGED <<env, semaphore, call, ctx, pc, acquired, esRes, gpRes, fsVars, procVars>>

\* a script sanitized under the environment NewRunner was called in
ApplySanitizeAfterNewRunner ==
    /\ probe.fn = "NewRunner"
    /\ probe.applied
    /\ probe.err = NilErr
    /\ \E script \in SanitizeArgs :
        probe' = [fn |-> "sanitizeScript", arg |-> script, applied |-> TRUE,
                  text |-> sanitizeScript(script, env.length), err |-> NilErr]
    /\ UNCHANGED runnerVars

CfgNext == ApplyNewRunner \/ ApplySanitizeAfterNewRunner

CfgSpec == CfgInit /\ [][CfgNext]_vars

\* ------------------------------------------------------------------------
\* One caller, many scripts
\* ------------------------------------------------------------------------

\* the caller that makes the calls
SoloCallers == {p \in Procs : \A q \in Procs : p <= q}

\* ev<NUL>al(1): a deny-listed call with a NUL byte inside the name
NulCall == <<"e", "v", NUL, "a", "l", "(", "1", ")">>

SoloScripts == ShellScripts \cup {EmptyScript, OkScript, NulCall, <<NUL>>}

SoloLengthValues == {<<>>, Itoa(ShortLengthLimit), Itoa(WrapLengthLimit)}

SoloInit == InitEnv({<<>>}, EnvLimitValues, SoloLengthValues) /\ probe = NoProbe

\* the format argument in the letter cases a caller may write it in
SoloFormats == Formats \cup {Svg, <<"P", "N", "G">>, <<"S", "v", "g">>}

\* the caller invokes ExecuteScript or GeneratePlot with one of the scripts
SoloStart(p) ==
    \E op \in {"ExecuteScript", "GeneratePlot"}, script \in SoloScripts,
       format \in SoloFormats, c \in {"live", "done"} :
        Start(p, op, script, IF op = "GeneratePlot" THEN format ELSE <<>>, c)

SoloNext ==
    \E p \in SoloCallers :
        \/ SoloStart(p)
        \/ Cancel(p)
        \/ ESAcquire(p)
        \/ ESCancelWait(p)
        \/ ESAdmit(p)
        \/ ESWait(p)
        \/ ESDrain(p)
        \/ GPAcquire(p)
        \/ GPCancelWait(p)
        \/ GPAdmit(p)
        \/ GPFinish(p)

SoloSpec == SoloInit /\ [][SoloNext]_vars

\* ------------------------------------------------------------------------
\* Observations on a state
\* ------------------------------------------------------------------------

\* the calls that have started and not returned
InFlight == {p \in Procs : pc[p] \notin {"idle", "done"}}

\* the ExecuteScript call of caller p (direct, or nested in GeneratePlot) has returned
ESReturned(p) == esRes[p].err.kind # "none"

\* the GeneratePlot call of caller p has returned
GPReturned(p) == call[p].op = "GeneratePlot" /\ pc[p] = "done"

\* a direct ExecuteScript call of caller p has returned
DirectESReturned(p) == call[p].op = "ExecuteScript" /\ pc[p] = "done"

\* slots taken by the ExecuteScript call of caller p itself
ESSlots(p) == IF call[p].op = "GeneratePlot" THEN acquired[p] - 1 ELSE acquired[p]

\* the invocations that are past their select and have not returned
Holders ==
    {<<p, "GeneratePlot">> : p \in {q \in Procs :
        /\ call[q].op = "GeneratePlot"
        /\ pc[q] \in {"gp_admit", "es_acquire", "es_admit", "es_run", "es_drain", "gp_finish"}}}
    \cup {<<p, "ExecuteScript">> :
              p \in {q \in Procs : pc[q] \in {"es_admit", "es_run", "es_drain"}}}

\* caller p sits in a select of which no case can proceed
Blocked(p) ==
    /\ pc[p] \in {"es_acquire", "gp_acquire"}
    /\ semaphore >= capacity
    /\ ctx[p] = "live"

\* ------------------------------------------------------------------------
\* Claims
\* ------------------------------------------------------------------------

\* C1: the number of interpreter subprocesses running at the same instant never exceeds
\* the configured limit, and an ExecuteScript call that returned from the wait for a slot
\* without getting one returned its own context's error, the context being done
C1_LimitRespected ==
    /\ Cardinality(subprocs) <= capacity
    /\ \A p \in Procs :
           (ESReturned(p) /\ ESSlots(p) = 0) => (ctx[p] = "done" /\ esRes[p].err = CtxErr)

\* more ExecuteScript calls than the limit: the limit's worth of subprocesses runs and a
\* further caller, not cancelled, waits for a slot
C1_Witness ==
    \E p, q \in Procs :
        /\ p # q
        /\ call[p].op = "ExecuteScript" /\ call[q].op = "ExecuteScript"
        /\ Cardinality(subprocs) = capacity
        /\ p \in subprocs
        /\ pc[q] = "es_acquire" /\ ctx[q] = "live"
        /\ esRes[q] = NoResult

\* C2: no state is reached in which calls are in flight and every one of them is blocked
\* waiting for a slot, so that none of them can release one
C2_NoDeadlock == ~(InFlight # {} /\ \A p \in InFlight : Blocked(p))

\* C3: the number of occupied slots equals the number of invocations that acquired a slot
\* and have not returned, and when every call has returned no slot is occupied
C3_NoSlotLeak ==
    /\ semaphore = Cardinality(Holders)
    /\ (InFlight = {} => semaphore = 0)

\* every call has returned, one with a plot (two slots taken and released), another after
\* its subprocess was killed
C3_Witness ==
    /\ InFlight = {}
    /\ \E p, q \in Procs :
        /\ gpRes[p].bytes = "image" /\ acquired[p] = 2
        /\ DirectESReturned(q) /\ esRes[q].err.kind = "signal: killed"
    /\ semaphore = 0

\* C4: a caller whose context is done and who leaves the wait for a slot without being
\* admitted returns the context's error, and the step changes neither the number of
\* occupied slots nor the number of slots the call has taken
C4_CancelledWaitTakesNoSlot ==
    [][\A p \in Procs :
          (/\ pc[p] \in {"es_acquire", "gp_acquire"}
           /\ pc'[p] \notin {pc[p], "es_admit", "gp_admit"})
          => /\ ctx[p] = "done"
             /\ semaphore' = semaphore
             /\ acquired'[p] = acquired[p]
             /\ IF pc[p] = "es_acquire"
                THEN esRes'[p] = [text |-> <<>>, err |-> CtxErr]
                ELSE gpRes'[p] = [bytes |-> "nil", err |-> CtxErr]]_vars

\* an ExecuteScript call returned the context's error without ever taking a slot, while
\* other calls keep every slot occupied
C4_Witness ==
    \E p \in Procs :
        /\ DirectESReturned(p)
        /\ acquired[p] = 0
        /\ esRes[p].err = CtxErr
        /\ semaphore = capacity
        /\ \A h \in Holders : h[1] # p

\* C5: a call whose context is done before the slot is acquired, or before the command is
\* started, starts no interpreter subprocess
C5_CancelledBeforeAcquireNeverSpawns ==
    [][\A p \in Procs :
          (ctx[p] = "done" /\ pc[p] \in {"es_acquire", "es_admit"})
          => /\ spawned'[p] = spawned[p]
             /\ (p \in subprocs') = (p \in subprocs)]_vars

\* an ExecuteScript call with a valid script whose context was done took the free slot
\* and returned the context's error from cmd.Run without a subprocess
C5_Witness ==
    \E p \in Procs :
        /\ DirectESReturned(p)
        /\ ctx[p] = "done"
        /\ acquired[p] = 1
        /\ spawned[p] = 0
        /\ esRes[p] = [text |-> <<"\n">>, err |-> CtxErr]

\* C6: a temporary directory exists only while the GeneratePlot call that made it has not
\* returned, or after os.RemoveAll failed on it: once the call has returned the
\* directory is gone unless its removal failed
C6_TempDirRemovedUnlessRemovalFails ==
    \A p \in Procs :
        (tempDir[p] = "exists" /\ pc[p] \in {"idle", "done"}) => rmFailed[p]

\* a GeneratePlot call made its directory, read the plot from it and returned, and the
\* directory is gone
C6_Witness ==
    \E p \in Procs :
        /\ GPReturned(p)
        /\ mkdirs[p] = 1
        /\ gpRes[p] = [bytes |-> "image", err |-> NilErr]
        /\ tempDir[p] = "removed"
        /\ ~rmFailed[p]

\* C6 as stated: after any GeneratePlot call has returned, its temporary directory does
\* not exist
C6_TempDirNeverOutlivesCall ==
    \A p \in Procs : GPReturned(p) => tempDir[p] # "exists"

\* C7: a GeneratePlot call with a format other than png and svg has, whenever it returns,
\* failed with "unsupported format", without a temporary directory and without a
\* subprocess
C7_UnsupportedFormatAlwaysRejected ==
    \A p \in Procs :
        (GPReturned(p) /\ ~SupportedFormat(ToLower(call[p].format)))
        => /\ gpRes[p].err.kind = "unsupported format"
           /\ mkdirs[p] = 0
           /\ spawned[p] = 0

\* C8: a call that ended in an admission error (empty script, unsupported format,
\* validator rejection) has taken no slot, made no temporary directory and started no
\* interpreter
C8_AdmissionErrorsTakeNothing ==
    \A p \in Procs :
        (\/ DirectESReturned(p)
            /\ esRes[p].err.kind \in {"script cannot be empty", "invalid script"}
         \/ GPReturned(p)
            /\ gpRes[p].err.kind \in {"unsupported format", "invalid script"})
        => /\ acquired[p] = 0
           /\ mkdirs[p] = 0
           /\ spawned[p] = 0

\* the causes of an error that the contract names, for a direct call by caller p: empty
\* script, validation failure, non-zero exit, deadline or cancellation
NamedCause(p) ==
    \/ call[p].script = <<>>
    \/ validateScript(call[p].script).category # "nil"
    \/ exit[p] = "1"
    \/ exit[p] = "killed"
    \/ (ctx[p] = "done" /\ exit[p] = "none")

\* C9: the error ExecuteScript returns is non-nil exactly on an empty script, a validation
\* failure, a non-zero exit, a deadline or cancellation, or when the interpreter could
\* not be started; each error comes from its own cause and a nil error from exit status 0
C9_ErrorExactlyOnNamedCausesOrStartFailure ==
    \A p \in Procs :
        DirectESReturned(p) =>
            /\ (esRes[p].err.kind # "nil") <=> (NamedCause(p) \/ exit[p] = "not started")
            /\ esRes[p].err.kind = "nil" => exit[p] = "0"
            /\ esRes[p].err.kind = "script cannot be empty" => call[p].script = <<>>
            /\ esRes[p].err.kind = "invalid script"
                   => validateScript(call[p].script).category # "nil"
            /\ esRes[p].err.kind = "exit status" => exit[p] = "1"
            /\ esRes[p].err.kind = "signal: killed" => exit[p] = "killed"
            /\ esRes[p].err.kind = "context" => (ctx[p] = "done" /\ exit[p] = "none")
            /\ esRes[p].err.kind = "exec" => exit[p] = "not started"

\* ExecuteScript calls have returned nil after exit status 0 and an error after a
\* non-zero exit or a kill
C9_Witness ==
    \E p, q \in Procs :
        /\ DirectESReturned(p) /\ DirectESReturned(q)
        /\ esRes[p].err = NilErr /\ exit[p] = "0"
        /\ esRes[q].err.kind \in {"exit status", "signal: killed"}

\* C9 as stated: the error is non-nil exactly on one of the four named causes
C9_ErrorExactlyOnNamedCauses ==
    \A p \in Procs :
        DirectESReturned(p) => ((esRes[p].err.kind # "nil") <=> NamedCause(p))

\* C10: whenever ExecuteScript returns an error its text is not empty, and so is the text
\* that the run_octave handler relays with IsError set
C10_TextAlwaysPopulated ==
    \A p \in Procs :
        (ESReturned(p) /\ esRes[p].err.kind # "nil")
        => /\ esRes[p].text # <<>>
           /\ (DirectESReturned(p) /\ runOctaveHandler(call[p].script, esRes[p]).IsError)
                  => runOctaveHandler(call[p].script, esRes[p]).Text # <<>>

\* C11: a script that calls a deny-listed function, the name in any letter case and with
\* any whitespace before the parenthesis, is rejected by validateScript as a dangerous
\* function
C11_DeniedCallsRejected ==
    (probe.fn = "validateScript" /\ probe.applied /\ probe.arg \in CallScripts)
    => probe.err.cause = "dangerous function"

\* C12: for a script with a shell fragment ($(, backquote, "; rm ", "| sh", "&&", "||"),
\* an ExecuteScript call that got its slot, and a GeneratePlot call that got its slot and
\* has a supported format, return "invalid script" for a command substitution or a
\* dangerous pattern, without starting the interpreter
C12_ShellFragmentsRejectedOnceAdmitted ==
    \A p \in Procs :
        call[p].script \in ShellScripts =>
            /\ (DirectESReturned(p) /\ acquired[p] = 1)
               => /\ esRes[p].err.kind = "invalid script"
                  /\ esRes[p].err.cause \in {"command substitution", "dangerous pattern"}
                  /\ spawned[p] = 0
            /\ (GPReturned(p) /\ acquired[p] >= 1 /\ SupportedFormat(ToLower(call[p].format)))
               => /\ gpRes[p].err.kind = "invalid script"
                  /\ gpRes[p].err.cause \in {"command substitution", "dangerous pattern"}
                  /\ spawned[p] = 0

\* ExecuteScript returned "invalid script" for a&&b, naming the pattern
C12_Witness ==
    \E p \in Procs :
        /\ DirectESReturned(p)
        /\ call[p].script = <<"a", "&", "&", "b">>
        /\ esRes[p].err = Err("invalid script", "dangerous pattern", <<"&", "&">>)

\* C12 as stated: every ExecuteScript and GeneratePlot call with such a script returns
\* "invalid script"
C12_ShellFragmentsAlwaysRejected ==
    \A p \in Procs :
        call[p].script \in ShellScripts =>
            /\ DirectESReturned(p) => esRes[p].err.kind = "invalid script"
            /\ GPReturned(p) => gpRes[p].err.kind = "invalid script"

\* frag occurs in s, position by position
Occurs(frag, s) ==
    \E i \in 1..(Len(s) - Len(frag) + 1) : SubSeq(s, i, i + Len(frag) - 1) = frag

\* s has no command substitution, no deny-listed name followed by "(" and no shell fragment
Clean(s) ==
    /\ \A frag \in ShellFragments : ~Occurs(frag, s)
    /\ \A k \in 1..Len(dangerousFunctions) : ~Occurs(dangerousFunctions[k], s)

\* the length limit in force for this Runner's sanitizeScript calls
LengthLimit == EnvPositiveInt(env.length, defaultScriptLenLimit)

\* C13: a script without command substitution, deny-listed function followed by "(" or
\* shell fragment passes validateScript, and the script is the same after validation
C13_CleanScriptsPass ==
    (probe.fn = "validateScript" /\ probe.applied /\ Clean(probe.arg))
    => (probe.err.cause = "nil" /\ probe.text = probe.arg)

\* evals(1), a near miss of eval(, has been validated and accepted
C13_Witness ==
    /\ probe.fn = "validateScript" /\ probe.applied
    /\ probe.arg = <<"e", "v", "a", "l", "s", "(", "1", ")">>
    /\ probe.err.cause = "nil"

\* C14: the sanitized script is never longer than the limit, and when the script is longer
\* than the limit after its NUL bytes are removed, its sanitized length is exactly the limit
C14_TruncatedToLimitAfterStrip ==
    (probe.fn = "sanitizeScript" /\ probe.applied)
    => /\ Len(probe.text) <= LengthLimit
       /\ Len(RemoveChar(probe.arg, NUL)) > LengthLimit => Len(probe.text) = LengthLimit

\* aaaa has been sanitized under limit 3 to aaa
C14_Witness ==
    /\ probe.fn = "sanitizeScript" /\ probe.applied
    /\ env.length = <<"3">>
    /\ probe.arg = <<"a", "a", "a", "a">>
    /\ probe.text = <<"a", "a", "a">>

\* C14 as stated: a script longer than the limit has a sanitized length of exactly the limit
C14_LongerThanLimitGivesLimit ==
    (probe.fn = "sanitizeScript" /\ probe.applied /\ Len(probe.arg) > LengthLimit)
    => Len(probe.text) = LengthLimit

\* C15: sanitizing a sanitized script under the same limit gives the same script
C15_SanitizeIdempotent ==
    (probe.fn = "sanitizeScript" /\ probe.applied)
    => sanitizeScript(probe.text, env.length) = probe.text

\* a script with NUL bytes and longer than the limit has been sanitized: both steps acted
C15_Witness ==
    /\ probe.fn = "sanitizeScript" /\ probe.applied
    /\ env.length = <<"2">>
    /\ probe.arg = <<NUL, "a", "a", "a">>
    /\ probe.text = <<"a", "a">>

\* C16: filtering a filtered text gives the same text
C16_FilterIdempotent ==
    (probe.fn = "filterOutput" /\ probe.applied)
    => filterOutput(probe.text) = probe.text

\* a text with a path and an address has been filtered: two of the substitutions acted
C16_Witness ==
    /\ probe.fn = "filterOutput" /\ probe.applied
    /\ probe.arg = <<"/", "x">> \o <<" ">> \o <<"1", ".", "2", ".", "3", ".", "4">>
    /\ probe.text = RedactedPath \o <<" ">> \o IPAddress

\* C17: a GeneratePlot call with an empty script and a supported format that got its slot
\* returns "script cannot be empty" and starts no interpreter
C17_EmptyPlotScriptRejected ==
    \A p \in Procs :
        (/\ GPReturned(p)
         /\ call[p].script = EmptyScript
         /\ acquired[p] >= 1
         /\ SupportedFormat(ToLower(call[p].format)))
        => (gpRes[p].err.kind = "script cannot be empty" /\ spawned[p] = 0)

\* C18: when GeneratePlot returns after the nested ExecuteScript, it returns "plot
\* generation failed" wrapping the executor's error if that call failed, and "failed to
\* read plot file" if it succeeded and the file does not exist; the read error is
\* returned only after a successful execution
C18_PlotErrorsByCause ==
    [][\A p \in Procs :
          (pc[p] = "gp_finish" /\ pc'[p] = "done")
          => /\ esRes[p].err.kind # "nil"
                => gpRes'[p] =
                       [bytes |-> "nil",
                        err |-> Err("plot generation failed", esRes[p].err.kind, <<>>)]
             /\ (esRes[p].err.kind = "nil" /\ ~plotFile[p])
                => gpRes'[p].err.kind = "failed to read plot file"
             /\ gpRes'[p].err.kind = "failed to read plot file"
                => esRes[p].err.kind = "nil"]_vars

\* the interpreter exited with status 0 without writing the file, and GeneratePlot
\* returned the read error
C18_Witness ==
    \E p \in Procs :
        /\ GPReturned(p)
        /\ exit[p] = "0"
        /\ esRes[p].err = NilErr
        /\ gpRes[p].err.kind = "failed to read plot file"

\* C19: an ExecuteScript call that ends because its context is done, while it waits for a
\* slot or while its subprocess runs and is killed, returns the context's error
C19_CancellationReturnsContextError ==
    \A p \in Procs :
        (/\ DirectESReturned(p)
         /\ ctx[p] = "done"
         /\ acquired[p] = 0 \/ exit[p] = "killed")
        => esRes[p].err = CtxErr

\* C20: a GeneratePlot call that has returned has non-nil bytes exactly when its error is nil
C20_BytesIffNoError ==
    \A p \in Procs :
        GPReturned(p) => ((gpRes[p].bytes # "nil") <=> (gpRes[p].err = NilErr))

\* one GeneratePlot call has returned the image, another an error
C20_Witness ==
    \E p, q \in Procs :
        /\ GPReturned(p) /\ gpRes[p] = [bytes |-> "image", err |-> NilErr]
        /\ GPReturned(q) /\ gpRes[q].bytes = "nil" /\ gpRes[q].err.kind = "unsupported format"

\* the value NewRunner and the calls are to use for a variable set to text, given its default
ExpectedConfig(text, default) ==
    IF \E n \in 1..MaxConfigValue : text = Itoa(n)
    THEN CHOOSE n \in 1..MaxConfigValue : text = Itoa(n)
    ELSE default

\* C21: for each of the three variables an unset, non-numeric, zero or negative value
\* gives the default and a positive integer is used as given; the timeout, the capacity
\* of the gate and the length limit are positive, and NewRunner does not exit because of
\* the configuration
C21_ConfigurationBoundsPositive ==
    (probe.fn # "none" /\ probe.applied)
    => /\ ~TimeoutElapsed(Seconds(scriptTimeout(env.timeout)))
       /\ probe.err.cause # "context"
       /\ env.timeout \in InvalidConfigTexts \cup {OutOfRangeText}
          => scriptTimeout(env.timeout) = <<defaultExecTimeoutSeconds, 0, 0, 0>>
       /\ \A n \in 1..MaxConfigValue :
              env.timeout = Itoa(n) => scriptTimeout(env.timeout) = <<n, 0, 0, 0>>
       /\ probe.err = NilErr
          => /\ capacity >= 1
             /\ capacity = ExpectedConfig(env.limit, defaultConcurrencyLimit)
       /\ LengthLimit >= 1
       /\ LengthLimit = ExpectedConfig(env.length, defaultScriptLenLimit)
       /\ probe.fn = "sanitizeScript" => Len(probe.text) <= LengthLimit

\* C22: while a subprocess runs, the ExecuteScript call that started it holds the slot it
\* took before the start, a plot request holds two slots (its own and the nested call's),
\* and the slots held never exceed the capacity
C22_SlotHeldWhileSubprocessRuns ==
    /\ \A p \in subprocs :
           /\ <<p, "ExecuteScript">> \in Holders
           /\ acquired[p] = IF call[p].op = "GeneratePlot" THEN 2 ELSE 1
           /\ call[p].op = "GeneratePlot" => <<p, "GeneratePlot">> \in Holders
    /\ semaphore >= Cardinality(subprocs)
                    + Cardinality({p \in subprocs : call[p].op = "GeneratePlot"})
    /\ semaphore = Cardinality(Holders)
    /\ semaphore <= capacity

\* the subprocess of a plot request runs and the two slots of the request are the whole
\* capacity
C22_Witness ==
    \E p \in subprocs :
        /\ call[p].op = "GeneratePlot"
        /\ acquired[p] = 2
        /\ semaphore = 2
        /\ capacity = 2

\* the ExecuteScript invocation of caller p holds a slot
HoldsSlot(p) == pc[p] \in {"es_admit", "es_run", "es_drain"}

\* C23: an ExecuteScript call that has acquired a slot eventually returns and frees it, its
\* subprocess being ended by the deadline or the cancellation at the latest, and a caller
\* that waits for a slot behind such a call eventually leaves the wait
C23_AcquiredCallsReturn ==
    \A p \in Procs :
        /\ HoldsSlot(p) ~> ~HoldsSlot(p)
        /\ (pc[p] = "es_acquire" /\ \E q \in Procs \ {p} : HoldsSlot(q))
           ~> (pc[p] # "es_acquire")

\* C24: the text handed to a subprocess, by a direct ExecuteScript call or by the nested
\* call of GeneratePlot, is at most as long as the length limit and has no NUL byte
C24_ExecutedTextSanitized ==
    \A p \in Procs :
        spawned[p] >= 1
        => /\ Len(evalArg[p]) <= LengthLimit
           /\ \A i \in 1..Len(evalArg[p]) : evalArg[p][i] # NUL

\* under limit 3, plot(1) was handed to the interpreter as plo
C24_Witness ==
    \E p \in Procs :
        /\ call[p].op = "ExecuteScript"
        /\ call[p].script = OkScript
        /\ env.length = Itoa(ShortLengthLimit)
        /\ spawned[p] = 1
        /\ evalArg[p] = <<"p", "l", "o">>

\* C25: a temp directory is created only for a supported format and a script the
\* validator accepts, a call with an unsupported format and a rejected script reports the
\* format, and a call in which the validator rejected the script, in GeneratePlot or in
\* the nested ExecuteScript, created no temp directory
C25_ValidatedBeforeFilesystem ==
    \A p \in Procs :
        call[p].op = "GeneratePlot"
        => /\ mkdirs[p] >= 1
              => /\ SupportedFormat(ToLower(call[p].format))
                 /\ validateScript(call[p].script).category = "nil"
           /\ (GPReturned(p) /\ acquired[p] >= 1
                  /\ ~SupportedFormat(ToLower(call[p].format)))
              => gpRes[p].err.kind = "unsupported format"
           /\ (gpRes[p].err.kind = "invalid script" \/ esRes[p].err.kind = "invalid script")
              => mkdirs[p] = 0

\* C29: the text handed to a subprocess is accepted by validateScript
C29_ExecutedTextPassesValidation ==
    \A p \in Procs :
        spawned[p] >= 1 => validateScript(evalArg[p]).category = "nil"

\* C30: the text the nested ExecuteScript of a plot request hands to the interpreter ends
\* with the complete print command for the plot file of the request
C30_WrapperKeepsPrintCommand ==
    \A p \in Procs :
        (call[p].op = "GeneratePlot" /\ spawned[p] >= 1)
        => HasPrefixAt(evalArg[p], PrintCommand(p, ToLower(call[p].format)),
                       Len(evalArg[p]) - Len(PrintCommand(p, ToLower(call[p].format))) + 1)

\* the elements of list that occur in script
Matches(script, list) == {k \in 1..Len(list) : Contains(script, list[k])}

Earliest(S) == CHOOSE k \in S : \A j \in S : k <= j

\* the error err for script is the one of the earliest check that matches: command
\* substitution, then the first deny-listed function of the list, then the first pattern
RejectedInOrder(script, err) ==
    LET sub == Contains(script, <<"$", "(">>) \/ Contains(script, <<BACKTICK>>)
        fs  == Matches(script, dangerousFunctions)
        ps  == Matches(script, dangerousPatterns)
    IN  /\ sub => err.cause = "command substitution"
        /\ (~sub /\ fs # {})
           => /\ err.cause = "dangerous function"
              /\ err.fragment = dangerousFunctions[Earliest(fs)]
        /\ (~sub /\ fs = {} /\ ps # {})
           => /\ err.cause = "dangerous pattern"
              /\ err.fragment = dangerousPatterns[Earliest(ps)]
        /\ (~sub /\ fs = {} /\ ps = {}) => err.cause = "nil"

\* C26 as amended: validateScript reports the earliest matching check, in the order command
\* substitution, deny-listed functions in list order, patterns in list order; the error
\* of a function or a pattern names the matched list entry, the error of a command
\* substitution names the category only
C26_EarliestCheckReported ==
    (probe.fn = "validateScript" /\ probe.applied)
    => /\ RejectedInOrder(probe.arg, probe.err)
       /\ probe.err.cause = "command substitution" => probe.err.fragment = <<>>

\* eval(1)||$( matches all three checks and is reported as a command substitution
C26_Witness ==
    /\ probe.fn = "validateScript"
    /\ probe.applied
    /\ probe.arg = <<"e", "v", "a", "l", "(", "1", ")", "|", "|", "$", "(">>
    /\ probe.err.cause = "command substitution"

\* C26 as stated: the earliest matching check is reported, and every rejection names
\* the literal fragment that matched
C26_EveryRejectionNamesFragment ==
    (probe.fn = "validateScript" /\ probe.applied)
    => /\ RejectedInOrder(probe.arg, probe.err)
       /\ probe.err.cause # "nil"
          => /\ probe.err.fragment # <<>>
             /\ Contains(probe.arg, probe.err.fragment)

\* what the claim lets a successful run return: filterOutput(trim(stdout))
SuccessTexts == {filterOutput(TrimSpace(stdout)) : stdout \in Stdouts}

\* what the claim lets a failed run return:
\* filterOutput(stderr) + "\n" + filterOutput(trim(stdout))
FailureTexts ==
    {filterOutput(stderr) \o <<"\n">> \o filterOutput(TrimSpace(stdout)) :
        stdout \in Stdouts, stderr \in Stderrs}

\* C27: the text ExecuteScript returns after a subprocess run is filterOutput(trim(stdout))
\* with a nil error when the subprocess exited with status 0, and filterOutput(stderr),
\* a newline and filterOutput(trim(stdout)) with a non-nil error otherwise; the path the
\* subprocess wrote is in neither, and the bytes GeneratePlot returns are the file's
C27_SubprocessOutputFiltered ==
    \A p \in Procs :
        /\ (spawned[p] >= 1 /\ pc[p] \in {"gp_finish", "done"})
           => /\ exit[p] = "0"
                 => (esRes[p].err = NilErr /\ esRes[p].text \in SuccessTexts)
              /\ exit[p] # "0"
                 => (esRes[p].err.kind # "nil" /\ esRes[p].text \in FailureTexts)
              /\ ~Contains(esRes[p].text, <<"/", "x">>)
        /\ (GPReturned(p) /\ gpRes[p].err = NilErr) => gpRes[p].bytes = "image"

\* a subprocess that wrote a path to both streams and was killed: both are redacted
C27_Witness ==
    \E p \in Procs :
        /\ DirectESReturned(p)
        /\ spawned[p] = 1
        /\ exit[p] = "killed"
        /\ esRes[p].text = <<"e", "r", "r", "o", "r", ":", " ">> \o RedactedPath
                           \o <<"\n", "\n", "a", "n", "s", " ", "=", " ">> \o RedactedPath

\* C28: within one call a subprocess is started only if none was started before, a temp
\* directory is created only if none was created before, and GeneratePlot enters its
\* nested ExecuteScript only if no ExecuteScript has returned to it before
C28_NoRetry ==
    [][\A p \in Procs :
          /\ spawned'[p] > spawned[p] => spawned[p] = 0
          /\ mkdirs'[p] > mkdirs[p] => mkdirs[p] = 0
          /\ (pc[p] = "gp_admit" /\ pc'[p] = "es_acquire")
             => (esRes[p] = NoResult /\ spawned[p] = 0 /\ acquired[p] = 1)]_vars

\* a plot request whose subprocess exited with status 1 has returned the failure, after
\* one subprocess and one temp directory
C28_Witness ==
    \E p \in Procs :
        /\ GPReturned(p)
        /\ gpRes[p].err.kind = "plot generation failed"
        /\ exit[p] = "1"
        /\ spawned[p] = 1
        /\ mkdirs[p] = 1
        /\ acquired[p] = 2

\* C31: an image result of the generate_plot handler has the MIME type of the format the
\* runner accepted, image/png for png and image/svg+xml for svg, in whatever letter case
\* the request gave the format
C31_MimeTypeMatchesFormat ==
    \A p \in Procs :
        (GPReturned(p)
            /\ generatePlotHandler(call[p].script, call[p].format, gpRes[p]).hasResult
            /\ ~generatePlotHandler(call[p].script, call[p].format, gpRes[p]).IsError)
        => generatePlotHandler(call[p].script, call[p].format, gpRes[p]).MIMEType
               = (IF ToLower(call[p].format) = Png THEN "image/png" ELSE "image/svg+xml")

====
